---- MODULE Spec2Model ----
(***************************************************************************)
(* Model of the swipe-and-dine game server (server/server/index.ts): the   *)
(* in-memory room registry, the per-connection handlers createRoom,        *)
(* joinRoom, submitRestaurants, makeChoice and disconnect, and the         *)
(* notifications each handler emits.                                       *)
(***************************************************************************)
EXTENDS Integers, Sequences, FiniteSets, TLC

\* ------------------------------------------------------------------ bounds
\* number of connections (socket ids) that may ever connect
NumSockets == 3
\* size of the room-code space generateRoomCode draws from
NumCodes == 2
\* highest round number a session is followed to: the rounds played after
\* round MaxRound are all numbered MaxRound
MaxRound == 2

Sockets == 1..NumSockets
Codes == 1..NumCodes

\* `let currentRoom: string | null = null`
Null == 0

\* restaurantId that no submission ever generated
BogusId == 0

\* type Choice = "YES" | "NO" | "NEUTRAL"
Choice == {"YES", "NO", "NEUTRAL"}

\* String.prototype.toLowerCase on the restaurant names the clients type
toLowerCase(n) ==
    CASE n = "A" -> "a"
      [] n = "B" -> "b"
      [] n = "C" -> "c"
      [] n = "D" -> "d"
      [] n = "E" -> "e"
      [] n = "F" -> "f"
      [] OTHER -> n

VARIABLES
    rooms,        \* const rooms = new Map<string, GameRoom>()
    status,       \* per socket: "open" (connected) or "closed" (disconnected)
    currentRoom,  \* per socket: the closure variable currentRoom
    joined,       \* per socket: the socket.io rooms it joined (socket.join)
    out,          \* notifications emitted by the last handler, in order
    last,         \* the last handler that ran, and the socket it ran for
    gameState     \* per socket: the GameState of its client (useSocket)

vars == <<rooms, status, currentRoom, joined, out, last, gameState>>

\* the handler op runs for socket s
Ran(op, s) == [op |-> op, socket |-> s]

\* ------------------------------------------------------------ map helpers
EmptyMap == [k \in {} |-> 0]

Put(m, k, v) == [x \in (DOMAIN m) \cup {k} |-> IF x = k THEN v ELSE m[x]]

Has(m, k) == k \in DOMAIN m

Delete(m, k) == [x \in (DOMAIN m) \ {k} |-> m[x]]

Range(s) == {s[i] : i \in DOMAIN s}

\* players.filter((id) => id !== socketId)
RECURSIVE FilterOut(_, _)
FilterOut(s, socketId) ==
    IF s = <<>> THEN <<>>
    ELSE (IF Head(s) # socketId THEN <<Head(s)>> ELSE <<>>)
            \o FilterOut(Tail(s), socketId)

\* ---------------------------------------------------------- notifications
\* one emit: the set of sockets it is delivered to, the event, its arguments
Emit(to, ev, arg) == [to |-> to, ev |-> ev, arg |-> arg]

\* io.emit in the place of socket.emit: to every connection
ToSocket_toAll(s, ev, arg) == <<Emit(Sockets, ev, arg)>>

\* socket.emit(ev, ...): to the calling socket only
ToSocket(s, ev, arg) == <<Emit({s}, ev, arg)>>

\* members of the socket.io room named by a room code
IoRoom(c) == {s \in Sockets : c \in joined[s]}

\* io.to(code).emit(ev, ...): nothing is sent when the room has no member
ToRoom(members, ev, arg) ==
    IF members = {} THEN <<>> ELSE <<Emit(members, ev, arg)>>

\* ------------------------------------------------------------------- Init
\* ------------------------------------------------------------------ client
\* useSocket's initial GameState, of which the model keeps the fields the
\* screens are chosen and filled by: gamePhase, isWaiting and currentCard
\* (<<>> for null, <<restaurant>> otherwise)
InitialGameState ==
    [gamePhase |-> "idle", isWaiting |-> FALSE, currentCard |-> <<>>]

\* the socket.on handlers of useSocket: the GameState after the event msg
\* (error writes the error field only)
OnEvent(prev, msg) ==
    CASE msg.ev = "roomCreated" -> [prev EXCEPT !.gamePhase = "waiting"]
      [] msg.ev = "playerJoined" ->
            [prev EXCEPT !.gamePhase =
                            IF msg.arg[1] = 2 THEN "input" ELSE "waiting"]
      [] msg.ev = "gameStart" -> [prev EXCEPT !.gamePhase = "playing"]
      [] msg.ev = "showCard" ->
            [prev EXCEPT !.currentCard = <<msg.arg[1]>>, !.isWaiting = FALSE]
      [] msg.ev = "waitingForOther" -> [prev EXCEPT !.isWaiting = TRUE]
      [] msg.ev = "newRound" ->
            [prev EXCEPT !.currentCard = <<>>, !.isWaiting = FALSE,
                         !.gamePhase = "playing"]
      [] msg.ev = "gameEnd" ->
            [prev EXCEPT !.gamePhase = "ended", !.currentCard = <<>>]
      [] OTHER -> prev

\* the GameState of the client of socket s once it has handled, in the
\* order of emission, the notifications of msgs addressed to s
RECURSIVE Receive(_, _, _)
Receive(prev, msgs, s) ==
    IF msgs = <<>> THEN prev
    ELSE Receive(IF s \in Head(msgs).to THEN OnEvent(prev, Head(msgs))
                 ELSE prev,
                 Tail(msgs), s)

\* every client handles the notifications of the handler that ran
Deliver == gameState' = [s \in Sockets |-> Receive(gameState[s], out', s)]

\* The server has started, the registry is empty, and every socket has run
\* io.on("connection"): it is connected and its currentRoom is null.
Init ==
    /\ rooms = EmptyMap
    /\ status = [s \in Sockets |-> "open"]
    /\ currentRoom = [s \in Sockets |-> Null]
    /\ joined = [s \in Sockets |-> {}]
    /\ out = <<>>
    /\ last = Ran("listen", Null)
    /\ gameState = [s \in Sockets |-> InitialGameState]

\* the GameRoom literal of createRoom; nextId numbers the restaurants the
\* room creates and ended records that gameEnd was emitted for it (neither
\* is a field of GameRoom)
NewRoom(s) ==
    [ players |-> <<s>>,
      restaurants |-> <<>>,
      playerDecks |-> EmptyMap,
      playerCardIndices |-> EmptyMap,
      choices |-> EmptyMap,
      matches |-> <<>>,
      neutrals |-> <<>>,
      submittedPlayers |-> {},
      roundNumber |-> 1,
      nextId |-> 1,
      ended |-> FALSE ]

\* generateRoomCode: any code of the code space, whether in use or not
generateRoomCode(codes) == codes

\* socket.on("createRoom"), drawing the room code from codes
CreateRoom(s, codes) ==
    /\ status[s] = "open"
    /\ last' = Ran("createRoom", s)
    /\ \E roomCode \in generateRoomCode(codes) :
          /\ rooms' = Put(rooms, roomCode, NewRoom(s))
          /\ currentRoom' = [currentRoom EXCEPT ![s] = roomCode]
          /\ joined' = [joined EXCEPT ![s] = @ \cup {roomCode}]
          /\ out' = ToSocket(s, "roomCreated", <<roomCode>>)
                       \o ToSocket(s, "playerJoined", <<1>>)
    /\ UNCHANGED status

\* the capacity test off by one: room.players.length > 2
RoomIsFull_offByOne(room) == Len(room.players) > 2

\* room.players.length >= 2
RoomIsFull(room) == Len(room.players) >= 2

\* joinRoom with currentRoom assigned before the room is validated
JoinRoom_bindsFirst(s, roomCode) ==
    /\ status[s] = "open"
    /\ last' = Ran("joinRoom", s)
    /\ currentRoom' = [currentRoom EXCEPT ![s] = roomCode]
    /\ IF ~Has(rooms, roomCode)
       THEN /\ out' = ToSocket(s, "error", <<"Room not found">>)
            /\ UNCHANGED <<rooms, joined>>
       ELSE IF Len(rooms[roomCode].players) >= 2
       THEN /\ out' = ToSocket(s, "error", <<"Room is full">>)
            /\ UNCHANGED <<rooms, joined>>
       ELSE LET room == [rooms[roomCode] EXCEPT !.players = Append(@, s)]
            IN /\ rooms' = [rooms EXCEPT ![roomCode] = room]
               /\ joined' = [joined EXCEPT ![s] = @ \cup {roomCode}]
               /\ out' = ToSocket(s, "playerJoined", <<Len(room.players)>>)
                           \o ToRoom(IoRoom(roomCode) \ {s}, "playerJoined",
                                     <<Len(room.players)>>)
    /\ UNCHANGED status

\* socket.on("joinRoom")
JoinRoom(s, roomCode) ==
    /\ status[s] = "open"
    /\ last' = Ran("joinRoom", s)
    /\ IF ~Has(rooms, roomCode)
       THEN /\ out' = ToSocket(s, "error", <<"Room not found">>)
            /\ UNCHANGED <<rooms, currentRoom, joined>>
       ELSE IF RoomIsFull(rooms[roomCode])
       THEN /\ out' = ToSocket(s, "error", <<"Room is full">>)
            /\ UNCHANGED <<rooms, currentRoom, joined>>
       ELSE LET room == [rooms[roomCode] EXCEPT !.players = Append(@, s)]
            IN /\ rooms' = [rooms EXCEPT ![roomCode] = room]
               /\ currentRoom' = [currentRoom EXCEPT ![s] = roomCode]
               /\ joined' = [joined EXCEPT ![s] = @ \cup {roomCode}]
               /\ out' = ToSocket(s, "playerJoined", <<Len(room.players)>>)
                           \o ToRoom(IoRoom(roomCode) \ {s}, "playerJoined",
                                     <<Len(room.players)>>)
    /\ UNCHANGED status

\* the cleanup of empty rooms left out
RoomIsEmpty_never(players) == FALSE

\* room.players.length === 0
RoomIsEmpty(players) == Len(players) = 0

\* a disconnect that removes the socket from the players of every room
Disconnect_everyRoom(s) ==
    /\ status[s] = "open"
    /\ last' = Ran("disconnect", s)
    /\ status' = [status EXCEPT ![s] = "closed"]
    /\ joined' = [joined EXCEPT ![s] = {}]
    /\ out' = <<>>
    /\ UNCHANGED currentRoom
    /\ LET kept == {c \in DOMAIN rooms :
                      ~RoomIsEmpty(FilterOut(rooms[c].players, s))}
       IN rooms' = [c \in kept |->
                      [rooms[c] EXCEPT !.players = FilterOut(@, s)]]

\* socket.on("disconnect"); socket.io then drops the socket from its rooms
Disconnect(s) ==
    /\ status[s] = "open"
    /\ last' = Ran("disconnect", s)
    /\ status' = [status EXCEPT ![s] = "closed"]
    /\ joined' = [joined EXCEPT ![s] = {}]
    /\ out' = <<>>
    /\ UNCHANGED currentRoom
    /\ IF currentRoom[s] # Null /\ Has(rooms, currentRoom[s])
       THEN LET c == currentRoom[s]
                players == FilterOut(rooms[c].players, s)
            IN IF RoomIsEmpty(players)
               THEN rooms' = Delete(rooms, c)
               ELSE rooms' = [rooms EXCEPT ![c].players = players]
       ELSE UNCHANGED rooms

\* ------------------------------------------------------------ the game
\* the exchange done as two assignments without a temporary:
\* shuffled[i] = shuffled[j]; shuffled[j] = shuffled[i]
Swap_overwrites(a, i, j) ==
    [k \in DOMAIN a |-> IF k = i THEN a[j] ELSE a[k]]

\* shuffled[i], shuffled[j] = shuffled[j], shuffled[i]
Swap(a, i, j) ==
    [k \in DOMAIN a |-> IF k = i THEN a[j] ELSE IF k = j THEN a[i] ELSE a[k]]

\* the loop of shuffleArray from position i down (positions are 1-based
\* here): every j that Math.floor(Math.random() * (i + 1)) can yield
RECURSIVE ShuffleFrom(_, _)
ShuffleFrom(shuffled, i) ==
    IF i < 2 THEN {shuffled}
    ELSE UNION {ShuffleFrom(Swap(shuffled, i, j), i - 1) : j \in 1..i}

\* shuffleArray: the set of arrays the Fisher-Yates loop can return
shuffleArray(array) == ShuffleFrom(array, Len(array))

\* the showCard loop sending the last card of each deck for the first
RECURSIVE FirstCards_lastCard(_, _)
FirstCards_lastCard(room, players) ==
    IF players = <<>> THEN <<>>
    ELSE LET playerId == Head(players)
             playerDeck == room.playerDecks[playerId]
         IN (IF status[playerId] = "open" /\ Len(playerDeck) > 0
             THEN ToSocket(playerId, "showCard",
                           <<playerDeck[Len(playerDeck)], 0,
                             Len(playerDeck)>>)
             ELSE <<>>)
            \o FirstCards_lastCard(room, Tail(players))

\* the showCard loop at the end of startNewRound, over room.players in order
RECURSIVE FirstCards(_, _)
FirstCards(room, players) ==
    IF players = <<>> THEN <<>>
    ELSE LET playerId == Head(players)
             playerDeck == room.playerDecks[playerId]
         IN (IF status[playerId] = "open" /\ Len(playerDeck) > 0
             THEN ToSocket(playerId, "showCard",
                           <<playerDeck[1], 0, Len(playerDeck)>>)
             ELSE <<>>)
            \o FirstCards(room, Tail(players))

\* startNewRound without room.choices.clear()
startNewRound_keepsChoices(room, restaurants, roomCode) ==
    LET ids == Range(room.players)
    IN { LET started ==
               [room EXCEPT
                  !.restaurants = restaurants,
                  !.playerDecks =
                     [p \in (DOMAIN @) \cup ids |->
                        IF p \in ids THEN decks[p] ELSE @[p]],
                  !.playerCardIndices =
                     [p \in (DOMAIN @) \cup ids |->
                        IF p \in ids THEN 0 ELSE @[p]]]
         IN [room |-> started,
             out |-> ToRoom(IoRoom(roomCode), "newRound",
                            <<room.roundNumber, restaurants>>)
                       \o FirstCards(started, started.players)]
         : decks \in [ids -> shuffleArray(restaurants)] }

\* startNewRound without the reset of playerCardIndices
startNewRound_keepsIndices(room, restaurants, roomCode) ==
    LET ids == Range(room.players)
    IN { LET started ==
               [room EXCEPT
                  !.restaurants = restaurants,
                  !.choices = EmptyMap,
                  !.playerDecks =
                     [p \in (DOMAIN @) \cup ids |->
                        IF p \in ids THEN decks[p] ELSE @[p]],
                  !.playerCardIndices =
                     [p \in (DOMAIN @) \cup ids |->
                        IF p \in DOMAIN @ THEN @[p] ELSE 0]]
         IN [room |-> started,
             out |-> ToRoom(IoRoom(roomCode), "newRound",
                            <<room.roundNumber, restaurants>>)
                       \o FirstCards(started, room.players)]
         : decks \in [ids -> shuffleArray(restaurants)] }

\* startNewRound sending the first cards before newRound
startNewRound_cardsFirst(room, restaurants, roomCode) ==
    LET ids == Range(room.players)
    IN { LET started ==
               [room EXCEPT
                  !.restaurants = restaurants,
                  !.choices = EmptyMap,
                  !.playerDecks =
                     [p \in (DOMAIN @) \cup ids |->
                        IF p \in ids THEN decks[p] ELSE @[p]],
                  !.playerCardIndices =
                     [p \in (DOMAIN @) \cup ids |->
                        IF p \in ids THEN 0 ELSE @[p]]]
         IN [room |-> started,
             out |-> FirstCards(started, room.players)
                       \o ToRoom(IoRoom(roomCode), "newRound",
                                 <<room.roundNumber, restaurants>>)]
         : decks \in [ids -> shuffleArray(restaurants)] }

\* startNewRound: every (room, notifications) the shuffles can produce
startNewRound(room, restaurants, roomCode) ==
    LET ids == Range(room.players)
    IN { LET started ==
               [room EXCEPT
                  !.restaurants = restaurants,
                  !.choices = EmptyMap,
                  !.playerDecks =
                     [p \in (DOMAIN @) \cup ids |->
                        IF p \in ids THEN decks[p] ELSE @[p]],
                  !.playerCardIndices =
                     [p \in (DOMAIN @) \cup ids |->
                        IF p \in ids THEN 0 ELSE @[p]]]
         IN [room |-> started,
             out |-> ToRoom(IoRoom(roomCode), "newRound",
                            <<room.roundNumber, restaurants>>)
                       \o FirstCards(started, room.players)]
         : decks \in [ids -> shuffleArray(restaurants)] }

\* a submission that replaces the room's list where it should extend it
RECURSIVE PushOnto(_, _)
PushOnto(room, restaurantNames) ==
    IF restaurantNames = <<>> THEN room
    ELSE PushOnto(
            [room EXCEPT
               !.restaurants =
                  Append(@, [id |-> room.nextId, name |-> Head(restaurantNames)]),
               !.nextId = @ + 1],
            Tail(restaurantNames))

PushNames_overwrite(room, restaurantNames) ==
    PushOnto([room EXCEPT !.restaurants = <<>>], restaurantNames)

\* restaurantNames.forEach: one new Restaurant per name, pushed in order; the
\* id (name slug, Date.now(), Math.random()) is modelled as a fresh number
RECURSIVE PushNames(_, _)
PushNames(room, restaurantNames) ==
    IF restaurantNames = <<>> THEN room
    ELSE PushNames(
            [room EXCEPT
               !.restaurants =
                  Append(@, [id |-> room.nextId, name |-> Head(restaurantNames)]),
               !.nextId = @ + 1],
            Tail(restaurantNames))

\* new Map(entries): a key keeps the position of its first insertion and
\* the value of its last
RECURSIVE MapOf(_, _)
MapOf(entries, map) ==
    IF entries = <<>> THEN map
    ELSE LET e == Head(entries)
         IN MapOf(Tail(entries),
                  IF \E i \in DOMAIN map : map[i].key = e.key
                  THEN [i \in DOMAIN map |->
                          IF map[i].key = e.key THEN e ELSE map[i]]
                  ELSE Append(map, e))

\* a deduplication that keeps the first occurrence of a name, not the last
uniqueRestaurants_keepFirst(restaurants) ==
    LET first(i) == \A j \in 1..(i - 1) :
                       toLowerCase(restaurants[j].name)
                          # toLowerCase(restaurants[i].name)
        keep == {i \in DOMAIN restaurants : first(i)}
        nth(k) == CHOOSE i \in keep : Cardinality({j \in keep : j < i}) = k - 1
    IN [k \in 1..Cardinality(keep) |-> restaurants[nth(k)]]

\* Array.from(new Map(restaurants.map(r => [r.name.toLowerCase(), r])).values())
uniqueRestaurants(restaurants) ==
    LET entries == [i \in DOMAIN restaurants |->
                      [key |-> toLowerCase(restaurants[i].name),
                       value |-> restaurants[i]]]
        map == MapOf(entries, <<>>)
    IN [i \in DOMAIN map |-> map[i].value]

\* the duplicate-submission guard left out
AlreadySubmitted_never(room, s) == FALSE

\* room.submittedPlayers.has(socket.id)
AlreadySubmitted(room, s) == s \in room.submittedPlayers

\* socket.on("submitRestaurants")
SubmitRestaurants(s, restaurantNames) ==
    /\ status[s] = "open"
    /\ last' = Ran("submitRestaurants", s)
    /\ UNCHANGED <<status, currentRoom, joined>>
    /\ IF currentRoom[s] = Null
       THEN /\ out' = ToSocket(s, "error", <<"Not in a room">>)
            /\ UNCHANGED rooms
       ELSE IF ~Has(rooms, currentRoom[s])
       THEN /\ out' = <<>>
            /\ UNCHANGED rooms
       ELSE IF AlreadySubmitted(rooms[currentRoom[s]], s)
       THEN /\ out' = <<>>
            /\ UNCHANGED rooms
       ELSE LET c == currentRoom[s]
                pushed == PushNames(rooms[c], restaurantNames)
                room == [pushed EXCEPT !.submittedPlayers = @ \cup {s}]
            IN IF Cardinality(room.submittedPlayers) = 2
               THEN LET unique == uniqueRestaurants(room.restaurants)
                        deduped == [room EXCEPT !.restaurants = unique]
                    IN \E r \in startNewRound(deduped, unique, c) :
                          /\ rooms' = [rooms EXCEPT ![c] = r.room]
                          /\ out' = ToRoom(IoRoom(c), "gameStart", <<unique>>)
                                      \o r.out
               ELSE /\ rooms' = [rooms EXCEPT ![c] = room]
                    /\ out' = <<>>

\* the test made for the first player of the room only
allPlayersDone_firstPlayer(room) ==
    LET playerId == room.players[1]
    IN /\ Has(room.playerCardIndices, playerId)
       /\ room.playerCardIndices[playerId] =
             (IF Has(room.playerDecks, playerId)
              THEN Len(room.playerDecks[playerId]) ELSE 0)

\* the test made for every socket that holds a deck, gone or not
allPlayersDone_everyDeck(room) ==
    \A playerId \in DOMAIN room.playerDecks :
       room.playerCardIndices[playerId] = Len(room.playerDecks[playerId])

\* the test of allPlayersDone with >= for ===
allPlayersDone_pastEnd(room) ==
    \A i \in DOMAIN room.players :
       LET playerId == room.players[i]
       IN /\ Has(room.playerCardIndices, playerId)
          /\ room.playerCardIndices[playerId] >=
                (IF Has(room.playerDecks, playerId)
                 THEN Len(room.playerDecks[playerId]) ELSE 0)

\* room.players.every(...): index === deck length, a missing deck counting 0
allPlayersDone(room) ==
    \A i \in DOMAIN room.players :
       LET playerId == room.players[i]
       IN /\ Has(room.playerCardIndices, playerId)
          /\ room.playerCardIndices[playerId] =
                (IF Has(room.playerDecks, playerId)
                 THEN Len(room.playerDecks[playerId]) ELSE 0)

\* a match as soon as none of the two choices is NO
Classify_matchWithoutNo(room, restaurant) ==
    IF /\ Has(room.choices, restaurant.id)
       /\ Cardinality(DOMAIN room.choices[restaurant.id]) = 2
    THEN LET choices == room.choices[restaurant.id]
             noNo == \A p \in DOMAIN choices : choices[p] # "NO"
         IN IF noNo THEN [room EXCEPT !.matches = Append(@, restaurant)]
            ELSE room
    ELSE room

\* the neutral branch without its test for a NO vote
Classify_neutralDespiteNo(room, restaurant) ==
    IF /\ Has(room.choices, restaurant.id)
       /\ Cardinality(DOMAIN room.choices[restaurant.id]) = 2
    THEN LET choices == room.choices[restaurant.id]
             bothYes == \A p \in DOMAIN choices : choices[p] = "YES"
             hasNeutral == \E p \in DOMAIN choices : choices[p] = "NEUTRAL"
         IN IF bothYes THEN [room EXCEPT !.matches = Append(@, restaurant)]
            ELSE IF hasNeutral
            THEN [room EXCEPT !.neutrals = Append(@, restaurant)]
            ELSE room
    ELSE room

\* the body of room.restaurants.forEach in makeChoice, for one restaurant
Classify(room, restaurant) ==
    IF /\ Has(room.choices, restaurant.id)
       /\ Cardinality(DOMAIN room.choices[restaurant.id]) = 2
    THEN LET choices == room.choices[restaurant.id]
             bothYes == \A p \in DOMAIN choices : choices[p] = "YES"
             hasNeutral == \E p \in DOMAIN choices : choices[p] = "NEUTRAL"
             hasNo == \E p \in DOMAIN choices : choices[p] = "NO"
         IN IF bothYes THEN [room EXCEPT !.matches = Append(@, restaurant)]
            ELSE IF hasNeutral /\ ~hasNo
            THEN [room EXCEPT !.neutrals = Append(@, restaurant)]
            ELSE room
    ELSE room

\* the tally walking room.restaurants from its last entry to its first
RECURSIVE Results_reversed(_, _)
Results_reversed(room, restaurants) ==
    IF restaurants = <<>> THEN room
    ELSE Classify(Results_reversed(room, Tail(restaurants)), Head(restaurants))

\* room.restaurants.forEach(...): matches and neutrals of the round
RECURSIVE Results(_, _)
Results(room, restaurants) ==
    IF restaurants = <<>> THEN room
    ELSE Results(Classify(room, Head(restaurants)), Tail(restaurants))

\* room.roundNumber++, counted up to MaxRound
NextRound(n) == IF n < MaxRound THEN n + 1 ELSE MaxRound

\* the duplicate-vote guard testing for a vote of any player
AlreadyVoted_byAnyone(room, restaurantId, s) == Has(room.choices, restaurantId)

\* the duplicate-vote guard left out
AlreadyVoted_never(room, restaurantId, s) == FALSE

\* existingChoices && existingChoices.has(socket.id)
AlreadyVoted(room, restaurantId, s) ==
    /\ Has(room.choices, restaurantId)
    /\ Has(room.choices[restaurantId], s)

\* socket.on("makeChoice")
MakeChoice(s, restaurantId, choice) ==
    /\ status[s] = "open"
    /\ last' = Ran("makeChoice", s)
    /\ UNCHANGED <<status, currentRoom, joined>>
    /\ IF currentRoom[s] = Null
       THEN /\ out' = ToSocket(s, "error", <<"Not in a room">>)
            /\ UNCHANGED rooms
       ELSE IF ~Has(rooms, currentRoom[s])
       THEN /\ out' = <<>>
            /\ UNCHANGED rooms
       ELSE IF AlreadyVoted(rooms[currentRoom[s]], restaurantId, s)
       THEN /\ out' = <<>>
            /\ UNCHANGED rooms
       ELSE LET c == currentRoom[s]
                room == rooms[c]
                existing == IF Has(room.choices, restaurantId)
                            THEN room.choices[restaurantId] ELSE EmptyMap
                voted == [room EXCEPT
                            !.choices = Put(@, restaurantId,
                                            Put(existing, s, choice))]
            IN IF ~Has(room.playerDecks, s) \/ ~Has(room.playerCardIndices, s)
               THEN /\ rooms' = [rooms EXCEPT ![c] = voted]
                    /\ out' = <<>>
               ELSE
               LET playerDeck == room.playerDecks[s]
                   nextIndex == room.playerCardIndices[s] + 1
                   moved == [voted EXCEPT !.playerCardIndices[s] = nextIndex]
               IN IF nextIndex < Len(playerDeck)
                  THEN /\ rooms' = [rooms EXCEPT ![c] = moved]
                       /\ out' = ToSocket(s, "showCard",
                                          <<playerDeck[nextIndex + 1], nextIndex,
                                            Len(playerDeck)>>)
                  ELSE IF ~allPlayersDone(moved)
                  THEN /\ rooms' = [rooms EXCEPT ![c] = moved]
                       /\ out' = ToSocket(s, "waitingForOther", <<>>)
                  ELSE
                  LET done == Results(moved, moved.restaurants)
                  IN IF Len(done.matches) >= 2
                     THEN LET runoffRestaurants == done.matches
                              runoff == [done EXCEPT
                                           !.roundNumber = NextRound(@),
                                           !.matches = <<>>,
                                           !.neutrals = <<>>]
                          IN \E r \in startNewRound(runoff,
                                                    runoffRestaurants, c) :
                                /\ rooms' = [rooms EXCEPT ![c] = r.room]
                                /\ out' = ToSocket(s, "waitingForOther", <<>>)
                                            \o r.out
                     ELSE /\ rooms' = [rooms EXCEPT
                                         ![c] = [done EXCEPT !.ended = TRUE]]
                          /\ out' = ToSocket(s, "waitingForOther", <<>>)
                                      \o ToRoom(IoRoom(c), "gameEnd",
                                                <<done.matches, done.neutrals>>)

\* --------------------------------------------------------- specifications
\* the restaurantIds the server has told the clients of room c (the ids
\* of the cards dealt, all of them carried by newRound)
KnownIds(c) ==
    IF Has(rooms, c)
    THEN UNION {{rooms[c].playerDecks[p][i].id :
                    i \in DOMAIN rooms[c].playerDecks[p]} :
                p \in DOMAIN rooms[c].playerDecks}
    ELSE {}

\* one handler runs: called by a socket of S, with room codes of C, name
\* lists of L, choices of Ch, and restaurantIds that are known to the room's
\* clients or in Other.  This is the server alone: what the clients make of
\* the notifications is left out (gameState stays as it is).
NextOver(S, C, L, Ch, Other) ==
    \/ \E s \in S : CreateRoom(s, C) /\ UNCHANGED gameState
    \/ \E s \in S, c \in C : JoinRoom(s, c) /\ UNCHANGED gameState
    \/ \E s \in S, l \in L :
          SubmitRestaurants(s, l) /\ UNCHANGED gameState
    \/ \E s \in S, ch \in Ch :
          \E id \in KnownIds(currentRoom[s]) \cup Other :
             MakeChoice(s, id, ch) /\ UNCHANGED gameState
    \/ \E s \in S : Disconnect(s) /\ UNCHANGED gameState

\* one handler runs as in NextOver, and every client handles the
\* notifications it is sent
ClientOver(S, C, L, Ch, Other) ==
    \/ \E s \in S : CreateRoom(s, C) /\ Deliver
    \/ \E s \in S, c \in C : JoinRoom(s, c) /\ Deliver
    \/ \E s \in S, l \in L : SubmitRestaurants(s, l) /\ Deliver
    \/ \E s \in S, ch \in Ch :
          \E id \in KnownIds(currentRoom[s]) \cup Other :
             MakeChoice(s, id, ch) /\ Deliver
    \/ \E s \in S : Disconnect(s) /\ Deliver

\* the two sockets of a two-player game, and the code of its room
Pair == {1, 2}
OneCode == {1}

\* one room code and every interleaving of NumSockets connections: the
\* code is reused, a third connection finds the room full or joins after
\* another left; each submits one name and votes YES
Next == NextOver(Sockets, OneCode, {<<"A">>}, {"YES"}, {})

Spec == Init /\ [][Next]_vars

\* as Spec, and the clients also vote on an id that was never dealt: a
\* game can end and be followed by votes that are recorded, by departures
\* and by the arrival and the submission of a third connection
LateNext == NextOver(Sockets, OneCode, {<<"A">>}, {"YES"}, {BogusId})

SpecLate == Init /\ [][LateNext]_vars

\* two connections over NumCodes room codes: a connection can move from
\* one room to another
CodesNext == NextOver(Pair, Codes, {<<"A">>}, {"YES"}, {})

SpecCodes == Init /\ [][CodesNext]_vars

\* one room and two players whose lists hold one name each, equal up to
\* case; every choice, and votes on an id that was never dealt
GameLists == {<<"A">>, <<"a">>}

GameNext == NextOver(Pair, OneCode, GameLists, Choice, {BogusId})

SpecGame == Init /\ [][GameNext]_vars

\* one room and two players who both submit the same two names, so that a
\* round can end with two matches; every choice
RunoffLists == {<<"A", "B">>}

RunoffNext == NextOver(Pair, OneCode, RunoffLists, Choice, {})

SpecRunoff == Init /\ [][RunoffNext]_vars

\* The second submission of a room.  The initial states are those the
\* server is in after createRoom by socket 1 (code 1), joinRoom(1) by
\* socket 2, submitRestaurants(l) by socket 1 for a list l of FirstLists, and
\* the disconnect of socket 1: the room holds the first list and waits for
\* the submission of socket 2, the one player left to be dealt a deck.
FirstLists == {<<>>, <<"A">>, <<"A", "a", "B">>, <<"A", "B", "C">>}
SecondLists == {<<>>, <<"a">>, <<"b", "D", "a">>, <<"D", "E", "F">>,
                <<"D", "E", "F", "d">>}

SubmitInit ==
    \E l \in FirstLists :
       /\ rooms = [c \in OneCode |->
                     [PushNames(NewRoom(1), l) EXCEPT
                        !.players = <<2>>,
                        !.submittedPlayers = {1}]]
       /\ status = [s \in Sockets |-> IF s = 1 THEN "closed" ELSE "open"]
       /\ currentRoom = [s \in Sockets |-> IF s \in Pair THEN 1 ELSE Null]
       /\ joined = [s \in Sockets |-> IF s = 2 THEN OneCode ELSE {}]
       /\ out = <<>>
       /\ last = Ran("disconnect", 1)
       /\ gameState = [s \in Sockets |-> InitialGameState]

SubmitNext ==
    \E l \in SecondLists : SubmitRestaurants(2, l) /\ UNCHANGED gameState

SpecSubmit == SubmitInit /\ [][SubmitNext]_vars

\* A game of two well-behaved clients.  The initial state is the one the
\* server is in after createRoom by socket 1 (code 1), joinRoom(1) by socket
\* 2 and submitRestaurants(ScenarioFirst) by socket 1.  Socket 2 submits
\* ScenarioSecond, and then each client rates the card it is shown (the one
\* at its cursor, GameScreen's currentRestaurant) with the choice
\* ScenarioChoice gives for its name, in any interleaving and for every
\* shuffle of the two decks.
ScenarioFirst == <<"A", "B", "C">>
ScenarioSecond == <<"B", "D", "E">>

ScenarioChoice(s, name) ==
    CASE name = "B" -> "YES"
      [] name = "D" -> IF s = 1 THEN "NEUTRAL" ELSE "YES"
      [] OTHER -> "NO"

ScenarioInit ==
    /\ rooms = [c \in OneCode |->
                  [PushNames(NewRoom(1), ScenarioFirst) EXCEPT
                     !.players = <<1, 2>>,
                     !.submittedPlayers = {1}]]
    /\ status = [s \in Sockets |-> "open"]
    /\ currentRoom = [s \in Sockets |-> IF s \in Pair THEN 1 ELSE Null]
    /\ joined = [s \in Sockets |-> IF s \in Pair THEN OneCode ELSE {}]
    /\ out = <<>>
    /\ last = Ran("submitRestaurants", 1)
    /\ gameState = [s \in Sockets |-> InitialGameState]

\* socket s holds a card to rate in its room
HasCard(s) ==
    /\ Has(rooms, currentRoom[s])
    /\ Has(rooms[currentRoom[s]].playerDecks, s)
    /\ rooms[currentRoom[s]].playerCardIndices[s]
          < Len(rooms[currentRoom[s]].playerDecks[s])

\* the card socket s was last shown: deck[index] of showCard
CurrentCard(s) ==
    rooms[currentRoom[s]].playerDecks[s]
       [rooms[currentRoom[s]].playerCardIndices[s] + 1]

ScenarioNext ==
    \/ SubmitRestaurants(2, ScenarioSecond) /\ UNCHANGED gameState
    \/ \E s \in Pair :
          /\ HasCard(s)
          /\ MakeChoice(s, CurrentCard(s).id,
                        ScenarioChoice(s, CurrentCard(s).name))
          /\ UNCHANGED gameState

SpecScenario == ScenarioInit /\ [][ScenarioNext]_vars

\* Two clients that stay connected and rate every card they are shown.
\* The initial state is the one the server is in after createRoom by socket
\* 1 (code 1) and joinRoom(1) by socket 2.  Each submits a list of
\* FairLists, of 0 to 2 names, and rates the card at its cursor with any
\* choice.  The event loop runs every handler whose message has arrived,
\* and a client that is shown a card does send a vote for it (at the latest
\* the NEUTRAL of GameScreen's timer): the submission and the vote of each
\* socket are weakly fair.
FairLists == {<<>>, <<"A">>, <<"A", "B">>}

FairInit ==
    /\ rooms = [c \in OneCode |-> [NewRoom(1) EXCEPT !.players = <<1, 2>>]]
    /\ status = [s \in Sockets |-> "open"]
    /\ currentRoom = [s \in Sockets |-> IF s \in Pair THEN 1 ELSE Null]
    /\ joined = [s \in Sockets |-> IF s \in Pair THEN OneCode ELSE {}]
    /\ out = <<Emit({2}, "playerJoined", <<2>>),
               Emit({1}, "playerJoined", <<2>>)>>
    /\ last = Ran("joinRoom", 2)
    /\ gameState = [s \in Sockets |-> InitialGameState]

\* socket s submits its list, once
FairSubmit(s) ==
    /\ Has(rooms, currentRoom[s])
    /\ ~AlreadySubmitted(rooms[currentRoom[s]], s)
    /\ \E l \in FairLists : SubmitRestaurants(s, l)
    /\ UNCHANGED gameState

\* socket s rates the card it is shown
FairVote(s) ==
    /\ HasCard(s)
    /\ \E ch \in Choice : MakeChoice(s, CurrentCard(s).id, ch)
    /\ UNCHANGED gameState

FairNext == \E s \in Pair : FairSubmit(s) \/ FairVote(s)

SpecFair ==
    /\ FairInit
    /\ [][FairNext]_vars
    /\ \A s \in Pair : WF_vars(FairSubmit(s)) /\ WF_vars(FairVote(s))

\* The clients of the three sockets with the server of Spec: every
\* notification a handler emits is handled by the clients it is addressed
\* to before the next handler runs.
ClientNext == ClientOver(Sockets, OneCode, {<<"A">>}, {"YES"}, {})

SpecClient == Init /\ [][ClientNext]_vars

\* The clients of two sockets with the server of SpecRunoff.
ClientRunoffNext == ClientOver(Pair, OneCode, RunoffLists, Choice, {})

SpecClientRunoff == Init /\ [][ClientRunoffNext]_vars

\* ----------------------------------------------------------------- claims
\* the message that tells socket s alone that its request was rejected
ErrorTo(s, message) == <<Emit({s}, "error", <<message>>)>>

\* some notification of the last handler carries event ev
Emitted(ev) == \E i \in DOMAIN out : out[i].ev = ev

\* C1: in every reachable state every room of the registry has at most 2
\* entries in its players list.
C1_AtMostTwoPlayers ==
    \A c \in DOMAIN rooms : Len(rooms[c].players) <= 2

\* a joinRoom on a room that holds 2 players was answered 'Room is full'
C1_FullRoomRejected ==
    /\ last.op = "joinRoom"
    /\ out = ErrorTo(last.socket, "Room is full")
    /\ \E c \in DOMAIN rooms : Len(rooms[c].players) = 2

\* C2: a joinRoom for an unknown code is answered 'Room not found' and one
\* for a room with 2 players 'Room is full', to the caller only, and leaves
\* the registry and every socket's currentRoom unchanged; any other joinRoom
\* appends the caller as the last player, leaves the rest of the registry
\* alone and notifies the new count.
C2_JoinRoomContract ==
    [][\A s \in Sockets, c \in Codes :
          (last' = Ran("joinRoom", s) /\ JoinRoom(s, c)) =>
             IF c \notin DOMAIN rooms
             THEN /\ out' = ErrorTo(s, "Room not found")
                  /\ UNCHANGED <<rooms, currentRoom>>
             ELSE IF Len(rooms[c].players) >= 2
             THEN /\ out' = ErrorTo(s, "Room is full")
                  /\ UNCHANGED <<rooms, currentRoom>>
             ELSE /\ rooms' = [rooms EXCEPT ![c].players = Append(@, s)]
                  /\ currentRoom' = [currentRoom EXCEPT ![s] = c]
                  /\ out' # <<>>
                  /\ out'[1] = Emit({s}, "playerJoined",
                                    <<Len(rooms[c].players) + 1>>)
                  /\ \A i \in DOMAIN out' :
                        /\ out'[i].ev = "playerJoined"
                        /\ out'[i].arg = <<Len(rooms[c].players) + 1>>]_vars

\* a second player has joined a room and both were told the count 2
C2_SecondPlayerJoined ==
    /\ last.op = "joinRoom"
    /\ Len(out) = 2
    /\ out[1] = Emit({last.socket}, "playerJoined", <<2>>)
    /\ out[2].ev = "playerJoined" /\ out[2].arg = <<2>>
    /\ \E c \in DOMAIN rooms :
          /\ Len(rooms[c].players) = 2
          /\ rooms[c].players[2] = last.socket
          /\ out[2].to = {rooms[c].players[1]}

\* C3: a createRoom never replaces or alters a room that is in the
\* registry.
C3_CreateRoomKeepsRooms ==
    [][\A s \in Sockets :
          CreateRoom(s, Codes) =>
             \A c \in DOMAIN rooms :
                c \in DOMAIN rooms' /\ rooms'[c] = rooms[c]]_vars

\* C4: no room of the registry has an empty players list.
C4_NoEmptyRoom ==
    \A c \in DOMAIN rooms : Len(rooms[c].players) >= 1

\* the one socket that ever was in a room has disconnected and its room is
\* gone from the registry
C4_LastPlayerLeft ==
    /\ last.op = "disconnect"
    /\ currentRoom[last.socket] # Null
    /\ \A s \in Sockets \ {last.socket} : currentRoom[s] = Null
    /\ rooms = EmptyMap

\* C5: no room of the registry keeps a disconnected socket in its players
\* list (so a room all of whose creators and joiners have disconnected is
\* not in the registry).
C5_NoDisconnectedPlayer ==
    \A c \in DOMAIN rooms :
       \A i \in DOMAIN rooms[c].players : status[rooms[c].players[i]] = "open"

\* C6: submitRestaurants from a socket that is in submittedPlayers of its
\* room changes nothing in the registry and emits nothing.
C6_ResubmitIsNoOp ==
    [][\A s \in Pair, l \in GameLists :
          ( /\ currentRoom[s] \in DOMAIN rooms
            /\ s \in rooms[currentRoom[s]].submittedPlayers
            /\ SubmitRestaurants(s, l) )
          => (rooms' = rooms /\ out' = <<>>)]_vars

\* a player of a started round has submitted again: nothing was emitted
C6_Resubmitted ==
    /\ last.op = "submitRestaurants"
    /\ out = <<>>
    /\ currentRoom[last.socket] \in DOMAIN rooms
    /\ LET room == rooms[currentRoom[last.socket]]
       IN /\ last.socket \in room.submittedPlayers
          /\ last.socket \in DOMAIN room.playerDecks
          /\ Len(room.restaurants) = 1

\* C7: makeChoice by a socket for a restaurant on which it has a choice
\* recorded changes nothing in the registry (choices, card indices) and
\* emits nothing; a recorded choice never changes its value, and it leaves
\* the room's choices only when a round starts or the room is deleted or
\* replaced.
C7_DuplicateVoteIgnored ==
    [][ /\ \A s \in Pair, ch \in Choice :
             \A id \in KnownIds(currentRoom[s]) \cup {BogusId} :
                ( /\ currentRoom[s] \in DOMAIN rooms
                  /\ Has(rooms[currentRoom[s]].choices, id)
                  /\ Has(rooms[currentRoom[s]].choices[id], s)
                  /\ MakeChoice(s, id, ch) )
                => (rooms' = rooms /\ out' = <<>>)
        /\ \A c \in DOMAIN rooms :
             \A id \in DOMAIN rooms[c].choices :
                \A p \in DOMAIN rooms[c].choices[id] :
                   IF /\ c \in DOMAIN rooms'
                      /\ Has(rooms'[c].choices, id)
                      /\ Has(rooms'[c].choices[id], p)
                   THEN rooms'[c].choices[id][p] = rooms[c].choices[id][p]
                   ELSE \/ last'.op \in {"createRoom", "disconnect"}
                        \/ \E i \in DOMAIN out' : out'[i].ev = "newRound" ]_vars

\* a player holding a deck has voted again on a restaurant it had voted on:
\* nothing was emitted
C7_VotedTwice ==
    /\ last.op = "makeChoice"
    /\ out = <<>>
    /\ currentRoom[last.socket] \in DOMAIN rooms
    /\ LET room == rooms[currentRoom[last.socket]]
       IN /\ last.socket \in DOMAIN room.playerDecks
          /\ \E id \in KnownIds(currentRoom[last.socket]) :
                /\ Has(room.choices, id)
                /\ Has(room.choices[id], last.socket)

\* the two choices recorded on a restaurant are both YES
BothYes(choices) == \A p \in DOMAIN choices : choices[p] = "YES"

\* none of them is NO and one at least is NEUTRAL
NeutralNoNo(choices) ==
    /\ \A p \in DOMAIN choices : choices[p] # "NO"
    /\ \E p \in DOMAIN choices : choices[p] = "NEUTRAL"

InList(r, list) == \E i \in DOMAIN list : list[i] = r

\* C8: when a makeChoice completes a round, every restaurant of the round
\* with exactly two recorded choices is in matches iff both are YES, in
\* neutrals iff none is NO and one is NEUTRAL, and never in both; gameEnd
\* carries these two lists, and a runoff round is played on the matches.
C8_Classification ==
    [][\A s \in Pair, ch \in Choice :
          \A id \in KnownIds(currentRoom[s]) :
             ( /\ last' = Ran("makeChoice", s)
               /\ \E i \in DOMAIN out' : out'[i].ev \in {"gameEnd", "newRound"}
               /\ MakeChoice(s, id, ch) )
             =>
             LET c == currentRoom[s]
                 old == rooms[c]
                 own == IF Has(old.choices, id) THEN old.choices[id]
                        ELSE EmptyMap
                 ledger == Put(old.choices, id, Put(own, s, ch))
                 two(r) == /\ Has(ledger, r.id)
                           /\ Cardinality(DOMAIN ledger[r.id]) = 2
                 ended == \E i \in DOMAIN out' : out'[i].ev = "gameEnd"
                 matches == IF ended THEN rooms'[c].matches
                            ELSE rooms'[c].restaurants
             IN /\ \A k \in DOMAIN old.restaurants :
                     LET r == old.restaurants[k]
                     IN two(r) =>
                          /\ InList(r, matches) <=> BothYes(ledger[r.id])
                          /\ ended =>
                               /\ InList(r, rooms'[c].neutrals)
                                     <=> NeutralNoNo(ledger[r.id])
                               /\ ~ ( /\ InList(r, matches)
                                      /\ InList(r, rooms'[c].neutrals) )
                               /\ ( ~InList(r, matches)
                                    /\ ~InList(r, rooms'[c].neutrals) )
                                     <=> \E p \in DOMAIN ledger[r.id] :
                                            ledger[r.id][p] = "NO"
                /\ ended =>
                     \A i \in DOMAIN out' :
                        out'[i].ev = "gameEnd" =>
                           out'[i].arg = <<rooms'[c].matches,
                                           rooms'[c].neutrals>>]_vars

\* a game has ended with one match and one neutral restaurant
C8_MatchAndNeutral ==
    /\ last.op = "makeChoice"
    /\ Emitted("gameEnd")
    /\ \E c \in DOMAIN rooms :
          /\ Len(rooms[c].matches) = 1
          /\ Len(rooms[c].neutrals) = 1
          /\ \A k \in DOMAIN rooms[c].restaurants :
                Cardinality(DOMAIN rooms[c].choices[rooms[c].restaurants[k].id])
                   = 2

\* the restaurants a room holds once the names of list are pushed onto it
Submitted(room, list) ==
    room.restaurants
       \o [i \in DOMAIN list |-> [id |-> room.nextId + i - 1, name |-> list[i]]]

\* the submitRestaurants of socket s is the second of its room
SecondSubmission(s) ==
    /\ currentRoom[s] \in DOMAIN rooms
    /\ s \notin rooms[currentRoom[s]].submittedPlayers
    /\ Cardinality(rooms[currentRoom[s]].submittedPlayers) = 1

\* C9: when the second submission arrives, the list of the room keeps, for
\* each lowercased name submitted, exactly one restaurant, and it is the
\* last one submitted under that name.
C9_DedupKeepsLast ==
    [][\A l \in SecondLists :
          ( /\ SecondSubmission(2)
            /\ rooms'[currentRoom[2]].nextId
                  = rooms[currentRoom[2]].nextId + Len(l)
            /\ SubmitRestaurants(2, l) ) =>
             LET all == Submitted(rooms[currentRoom[2]], l)
                 kept == rooms'[currentRoom[2]].restaurants
             IN /\ \A i \in DOMAIN kept : InList(kept[i], all)
                /\ \A j \in DOMAIN all :
                      LET same == {i \in DOMAIN kept :
                                     toLowerCase(kept[i].name)
                                        = toLowerCase(all[j].name)}
                          lastOf == CHOOSE m \in DOMAIN all :
                                      /\ toLowerCase(all[m].name)
                                            = toLowerCase(all[j].name)
                                      /\ \A n \in DOMAIN all :
                                            toLowerCase(all[n].name)
                                               = toLowerCase(all[j].name)
                                            => n <= m
                      IN /\ Cardinality(same) = 1
                         /\ \A i \in same : kept[i] = all[lastOf]]_vars

\* the round has started on fewer restaurants than were submitted, and a
\* name of the first list was replaced by the restaurant of the second
C9_LaterDuplicateKept ==
    /\ last = Ran("submitRestaurants", 2)
    /\ Emitted("gameStart")
    /\ \E c \in DOMAIN rooms :
          /\ Len(rooms[c].restaurants) < rooms[c].nextId - 1
          /\ \E i \in DOMAIN rooms[c].restaurants :
                /\ rooms[c].restaurants[i].name = "a"
                /\ rooms[c].restaurants[i].id > 3

\* no two names of the list are equal up to case
DistinctNames(list) ==
    \A i, j \in DOMAIN list :
       toLowerCase(list[i].name) = toLowerCase(list[j].name) => i = j

\* C10: when the two lists submitted hold 3 names or more each and no two
\* of all these names are equal up to case, the list of the room after the
\* deduplication has as many entries as both lists together.
C10_DisjointListsAddUp ==
    [][\A l \in SecondLists :
          ( /\ SecondSubmission(2)
            /\ Len(rooms[currentRoom[2]].restaurants) >= 3
            /\ Len(l) >= 3
            /\ DistinctNames(Submitted(rooms[currentRoom[2]], l))
            /\ rooms'[currentRoom[2]].nextId
                  = rooms[currentRoom[2]].nextId + Len(l)
            /\ SubmitRestaurants(2, l) )
          => Len(rooms'[currentRoom[2]].restaurants)
                = Len(rooms[currentRoom[2]].restaurants) + Len(l)]_vars

\* a round has started on the 6 restaurants of two lists of 3 names
C10_SixRestaurants ==
    /\ last = Ran("submitRestaurants", 2)
    /\ Emitted("newRound")
    /\ \E c \in DOMAIN rooms :
          /\ Len(rooms[c].restaurants) = 6
          /\ rooms[c].nextId = 7
          /\ Len(rooms[c].playerDecks[2]) = 6

\* the choice ledger of room once socket s has voted choice on restaurantId
LedgerWith(room, s, restaurantId, choice) ==
    Put(room.choices, restaurantId,
        Put(IF Has(room.choices, restaurantId)
            THEN room.choices[restaurantId] ELSE EmptyMap, s, choice))

\* socket s has no vote on restaurantId in the ledger of room
FirstVote(room, s, restaurantId) ==
    ~ ( /\ Has(room.choices, restaurantId)
        /\ Has(room.choices[restaurantId], s) )

\* a vote of socket s completes the round of room: s holds a deck, and with
\* the cursor of s moved by one every player stands at the end of a deck
CompletesRound(room, s) ==
    /\ Has(room.playerDecks, s)
    /\ room.playerCardIndices[s] + 1 >= Len(room.playerDecks[s])
    /\ \A i \in DOMAIN room.players :
          LET p == room.players[i]
          IN /\ Has(room.playerDecks, p)
             /\ room.playerCardIndices[p] + (IF p = s THEN 1 ELSE 0)
                   = Len(room.playerDecks[p])

\* the restaurants of list with two votes in ledger that are both YES, in
\* the order of list
RECURSIVE MatchesOf(_, _)
MatchesOf(list, ledger) ==
    IF list = <<>> THEN <<>>
    ELSE (IF /\ Has(ledger, Head(list).id)
             /\ Cardinality(DOMAIN ledger[Head(list).id]) = 2
             /\ BothYes(ledger[Head(list).id])
          THEN <<Head(list)>> ELSE <<>>) \o MatchesOf(Tail(list), ledger)

\* the restaurants of list with two votes in ledger, none of them NO and
\* one at least NEUTRAL, in the order of list
RECURSIVE NeutralsOf(_, _)
NeutralsOf(list, ledger) ==
    IF list = <<>> THEN <<>>
    ELSE (IF /\ Has(ledger, Head(list).id)
             /\ Cardinality(DOMAIN ledger[Head(list).id]) = 2
             /\ NeutralNoNo(ledger[Head(list).id])
          THEN <<Head(list)>> ELSE <<>>) \o NeutralsOf(Tail(list), ledger)

\* deck holds the restaurants of list, each as often as list does
PermutationOf(deck, list) ==
    /\ Len(deck) = Len(list)
    /\ \A r \in Range(deck) \cup Range(list) :
          Cardinality({i \in DOMAIN deck : deck[i] = r})
             = Cardinality({i \in DOMAIN list : list[i] = r})

\* C11: when a makeChoice completes a round with 2 matches or more, in that
\* one step roundNumber grows by exactly 1, the list of the room becomes the
\* matches in the order of the previous list, matches and neutrals are
\* emptied, the choice ledger is cleared, every player gets a deck of the
\* new list with cursor 0, and newRound is emitted and gameEnd is not.
\* (Stated for the rounds whose number is counted, those below MaxRound.)
C11_RunoffStart ==
    [][\A s \in Pair, ch \in Choice :
          \A id \in KnownIds(currentRoom[s]) :
             ( /\ last' = Ran("makeChoice", s)
               /\ Has(rooms, currentRoom[s])
               /\ rooms[currentRoom[s]].roundNumber < MaxRound
               /\ FirstVote(rooms[currentRoom[s]], s, id)
               /\ CompletesRound(rooms[currentRoom[s]], s)
               /\ Len(MatchesOf(rooms[currentRoom[s]].restaurants,
                                LedgerWith(rooms[currentRoom[s]], s, id, ch)))
                     >= 2
               /\ MakeChoice(s, id, ch) )
             =>
             LET c == currentRoom[s]
                 old == rooms[c]
                 new == rooms'[c]
                 m == MatchesOf(old.restaurants, LedgerWith(old, s, id, ch))
             IN /\ new.roundNumber = old.roundNumber + 1
                /\ new.restaurants = m
                /\ new.matches = <<>>
                /\ new.neutrals = <<>>
                /\ new.choices = EmptyMap
                /\ \A i \in DOMAIN old.players :
                      /\ Has(new.playerDecks, old.players[i])
                      /\ PermutationOf(new.playerDecks[old.players[i]], m)
                      /\ new.playerCardIndices[old.players[i]] = 0
                /\ \E i \in DOMAIN out' :
                      out'[i] = Emit(IoRoom(c), "newRound",
                                     <<new.roundNumber, m>>)
                /\ \A i \in DOMAIN out' : out'[i].ev # "gameEnd"]_vars

\* a makeChoice has started round 2 on two matches: the ledger is empty and
\* both players are at the top of a deck of two cards
C11_RunoffStarted ==
    /\ last.op = "makeChoice"
    /\ Emitted("newRound")
    /\ \E c \in DOMAIN rooms :
          /\ rooms[c].roundNumber = 2
          /\ Len(rooms[c].restaurants) = 2
          /\ rooms[c].choices = EmptyMap
          /\ Len(rooms[c].players) = 2
          /\ \A i \in DOMAIN rooms[c].players :
                /\ rooms[c].playerCardIndices[rooms[c].players[i]] = 0
                /\ Len(rooms[c].playerDecks[rooms[c].players[i]]) = 2

\* C12: when a makeChoice completes a round with 0 or 1 match, gameEnd is
\* sent to the room with exactly the matches and the neutrals of that round,
\* no round is started (list, decks and roundNumber stay, no newRound); and
\* every gameEnd that is emitted carries at most 1 match.
C12_GameEnd ==
    [][/\ \A i \in DOMAIN out' :
             out'[i].ev = "gameEnd" => Len(out'[i].arg[1]) <= 1
       /\ \A s \in Pair, ch \in Choice :
             \A id \in KnownIds(currentRoom[s]) :
                ( /\ last' = Ran("makeChoice", s)
                  /\ Has(rooms, currentRoom[s])
                  /\ FirstVote(rooms[currentRoom[s]], s, id)
                  /\ CompletesRound(rooms[currentRoom[s]], s)
                  /\ Len(MatchesOf(rooms[currentRoom[s]].restaurants,
                                   LedgerWith(rooms[currentRoom[s]], s, id,
                                              ch))) <= 1
                  /\ MakeChoice(s, id, ch) )
                =>
                LET c == currentRoom[s]
                    old == rooms[c]
                    new == rooms'[c]
                    ledger == LedgerWith(old, s, id, ch)
                    m == MatchesOf(old.restaurants, ledger)
                    n == NeutralsOf(old.restaurants, ledger)
                IN /\ out' = <<Emit({s}, "waitingForOther", <<>>),
                               Emit(IoRoom(c), "gameEnd", <<m, n>>)>>
                   /\ new.matches = m
                   /\ new.neutrals = n
                   /\ new.roundNumber = old.roundNumber
                   /\ new.restaurants = old.restaurants
                   /\ new.playerDecks = old.playerDecks
                   /\ new.choices = ledger]_vars

\* a round of two restaurants has ended the game with no match and both
\* restaurants neutral
C12_EndedOnNeutrals ==
    /\ last.op = "makeChoice"
    /\ Emitted("gameEnd")
    /\ \E c \in DOMAIN rooms :
          /\ rooms[c].matches = <<>>
          /\ rooms[c].neutrals = rooms[c].restaurants
          /\ Len(rooms[c].restaurants) = 2
          /\ Len(rooms[c].players) = 2

\* the names of the restaurants of list
NamesOf(list) == [i \in DOMAIN list |-> list[i].name]

\* the last handler was a vote of socket s that completed the round of
\* room 1
CompletedBy(s) ==
    /\ last' = Ran("makeChoice", s)
    /\ Has(rooms, 1)
    /\ currentRoom[s] = 1
    /\ rooms' # rooms
    /\ CompletesRound(rooms[1], s)

\* C13 as stated: in the game of ScenarioFirst and ScenarioSecond with YES
\* and YES on B, NEUTRAL and YES on D and NO on the rest, the vote that
\* completes round 1 starts round 2 on [B, D]: roundNumber 2, newRound, and
\* a deck of 2 cards for each player.
C13_RunoffOnBAndD ==
    [][\A s \in Pair :
          CompletedBy(s) =>
             /\ rooms'[1].roundNumber = 2
             /\ NamesOf(rooms'[1].restaurants) = <<"B", "D">>
             /\ \E i \in DOMAIN out' : out'[i].ev = "newRound"
             /\ \A p \in Pair : Len(rooms'[1].playerDecks[p]) = 2]_vars

\* C13: in that game the vote that completes round 1 leaves matches = [B]
\* and neutrals = [D] (NEUTRAL and YES make D neutral, not a match); the
\* game ends with gameEnd([B], [D]), no round 2 starts: roundNumber stays
\* 1 and the list and decks keep their 5 restaurants.
C13_EndsOnBWithDNeutral ==
    [][\A s \in Pair :
          CompletedBy(s) =>
             /\ NamesOf(rooms'[1].matches) = <<"B">>
             /\ NamesOf(rooms'[1].neutrals) = <<"D">>
             /\ rooms'[1].roundNumber = 1
             /\ NamesOf(rooms'[1].restaurants) = <<"A", "B", "C", "D", "E">>
             /\ \A p \in Pair : Len(rooms'[1].playerDecks[p]) = 5
             /\ out' = <<Emit({s}, "waitingForOther", <<>>),
                         Emit(Pair, "gameEnd",
                              <<rooms'[1].matches, rooms'[1].neutrals>>)>>]_vars

\* both players have rated their 5 cards and the game has ended with B the
\* one match and D the one neutral restaurant
C13_ScenarioPlayed ==
    /\ last.op = "makeChoice"
    /\ Emitted("gameEnd")
    /\ Has(rooms, 1)
    /\ \A p \in Pair : rooms[1].playerCardIndices[p] = 5
    /\ NamesOf(rooms[1].matches) = <<"B">>
    /\ NamesOf(rooms[1].neutrals) = <<"D">>
    /\ \E p, q \in Pair :
          /\ rooms[1].choices[rooms[1].neutrals[1].id][p] = "NEUTRAL"
          /\ rooms[1].choices[rooms[1].neutrals[1].id][q] = "YES"

\* C14: once gameEnd was emitted for a room, no makeChoice,
\* submitRestaurants, joinRoom or disconnect makes the server emit gameEnd
\* again, nor newRound, nor showCard, and the room stays ended as long as it
\* is in the registry.
C14_EndedIsTerminal ==
    [][/\ \A i \in DOMAIN out' :
             out'[i].ev = "gameEnd" =>
                /\ Has(rooms', currentRoom[last'.socket])
                /\ rooms'[currentRoom[last'.socket]].ended
                /\ ~rooms[currentRoom[last'.socket]].ended
       /\ \A c \in DOMAIN rooms :
             (rooms[c].ended /\ last'.op # "createRoom") =>
                /\ Has(rooms', c) => rooms'[c].ended
                /\ \A i \in DOMAIN out' :
                      out'[i].ev \notin {"gameEnd", "newRound", "showCard"}]_vars

\* after the end of a game a player has voted again: the vote moved the
\* cursor past the deck and was answered with waitingForOther alone
C14_VotedAfterEnd ==
    /\ last.op = "makeChoice"
    /\ Has(rooms, currentRoom[last.socket])
    /\ rooms[currentRoom[last.socket]].ended
    /\ Has(rooms[currentRoom[last.socket]].playerDecks, last.socket)
    /\ rooms[currentRoom[last.socket]].playerCardIndices[last.socket]
          > Len(rooms[currentRoom[last.socket]].playerDecks[last.socket])
    /\ out = <<Emit({last.socket}, "waitingForOther", <<>>)>>

\* C15: in every reachable state the cursor of every socket that was dealt
\* a deck is at least 0 and at most the length of that deck.
C15_CursorWithinDeck ==
    \A c \in DOMAIN rooms :
       \A p \in DOMAIN rooms[c].playerDecks :
          /\ 0 <= rooms[c].playerCardIndices[p]
          /\ rooms[c].playerCardIndices[p] <= Len(rooms[c].playerDecks[p])

\* C16: in every reachable state a choice of socket p on restaurant id is
\* in the ledger of a room only if the deck of p in that room holds the
\* restaurant at a position below the cursor of p.
C16_LedgerBehindCursor ==
    \A c \in DOMAIN rooms :
       \A id \in DOMAIN rooms[c].choices :
          \A p \in DOMAIN rooms[c].choices[id] :
             /\ Has(rooms[c].playerDecks, p)
             /\ \E k \in DOMAIN rooms[c].playerDecks[p] :
                   /\ rooms[c].playerDecks[p][k].id = id
                   /\ k <= rooms[c].playerCardIndices[p]

\* round 1 of room has started: decks were dealt
Started(room) == room.playerDecks # EmptyMap

\* C17: in every reachable state of a room whose round 1 has started, no
\* two restaurants of the list of the room have the same lowercased name.
C17_ListStaysDistinct ==
    \A c \in DOMAIN rooms :
       Started(rooms[c]) => DistinctNames(rooms[c].restaurants)

\* C18: whenever a round starts (newRound is emitted), the deck dealt to
\* each player of the room is a permutation of the list of the round, and
\* the list of the room is the list the round was started on, in its order:
\* the deduplicated submissions for round 1, the matches for a runoff.
C18_DecksArePermutations ==
    [][(\E i \in DOMAIN out' : out'[i].ev = "newRound") =>
          LET s == last'.socket
              c == currentRoom[s]
              old == rooms[c]
              new == rooms'[c]
          IN /\ \A i \in DOMAIN out' :
                   out'[i].ev = "newRound" => out'[i].arg[2] = new.restaurants
             /\ \A i \in DOMAIN new.players :
                   /\ Has(new.playerDecks, new.players[i])
                   /\ PermutationOf(new.playerDecks[new.players[i]],
                                    new.restaurants)
             /\ IF last'.op = "submitRestaurants"
                THEN \E l \in RunoffLists :
                        new.restaurants = uniqueRestaurants(Submitted(old, l))
                ELSE \E id \in KnownIds(c), ch \in Choice :
                        new.restaurants =
                           MatchesOf(old.restaurants,
                                     LedgerWith(old, s, id, ch))]_vars

\* a round has started on two restaurants and one of the two players was
\* dealt them in the order of the list, the other in the reverse order
C18_TwoOrdersDealt ==
    /\ Emitted("newRound")
    /\ \E c \in DOMAIN rooms :
          /\ Len(rooms[c].restaurants) = 2
          /\ Has(rooms[c].playerDecks, 1)
          /\ Has(rooms[c].playerDecks, 2)
          /\ rooms[c].playerDecks[1] = rooms[c].restaurants
          /\ rooms[c].playerDecks[2] =
                <<rooms[c].restaurants[2], rooms[c].restaurants[1]>>

\* C19: a submitRestaurants handled while the room of the caller has 1
\* player, or after its round 1 has started, or after its game has ended,
\* leaves the list of the room and its submittedPlayers unchanged.
C19_SubmitOnlyWhenSubmitting ==
    [][\A s \in Sockets :
          ( /\ last' = Ran("submitRestaurants", s)
            /\ Has(rooms, currentRoom[s])
            /\ \/ Len(rooms[currentRoom[s]].players) = 1
               \/ Started(rooms[currentRoom[s]])
               \/ rooms[currentRoom[s]].ended )
          =>
          /\ rooms'[currentRoom[s]].restaurants
                = rooms[currentRoom[s]].restaurants
          /\ rooms'[currentRoom[s]].submittedPlayers
                = rooms[currentRoom[s]].submittedPlayers]_vars

\* C20: a makeChoice handled before round 1 of the caller's room has
\* started, or after gameEnd was emitted for it, leaves the choice ledger
\* and every cursor of the room unchanged.
C20_VoteOnlyWhenRating ==
    [][\A s \in Pair :
          ( /\ last' = Ran("makeChoice", s)
            /\ Has(rooms, currentRoom[s])
            /\ \/ ~Started(rooms[currentRoom[s]])
               \/ rooms[currentRoom[s]].ended )
          =>
          /\ rooms'[currentRoom[s]].choices = rooms[currentRoom[s]].choices
          /\ rooms'[currentRoom[s]].playerCardIndices
                = rooms[currentRoom[s]].playerCardIndices]_vars

\* C21: a makeChoice by a player of a room whose round 1 has not started
\* (an action outside its phase) is answered with an error notification
\* sent to that player.
C21_EarlyVoteRejected ==
    [][\A s \in Pair :
          ( /\ last' = Ran("makeChoice", s)
            /\ Has(rooms, currentRoom[s])
            /\ s \in Range(rooms[currentRoom[s]].players)
            /\ ~Started(rooms[currentRoom[s]]) )
          =>
          \E i \in DOMAIN out' :
             out'[i].ev = "error" /\ s \in out'[i].to]_vars

\* C22: a submitRestaurants or makeChoice of a connection that is in no
\* room is answered 'Not in a room' to that connection alone; one of a
\* connection whose room is no longer in the registry is answered with
\* nothing; in both cases the registry and every currentRoom are unchanged
\* (no room is created, none is changed).
C22_NoRoomNoEffect ==
    [][\A s \in Pair :
          ( /\ last'.socket = s
            /\ last'.op \in {"submitRestaurants", "makeChoice"}
            /\ ~Has(rooms, currentRoom[s]) )
          =>
          /\ rooms' = rooms
          /\ currentRoom' = currentRoom
          /\ joined' = joined
          /\ out' = IF currentRoom[s] = Null
                    THEN ErrorTo(s, "Not in a room") ELSE <<>>]_vars

\* a connection whose room was deleted has sent a makeChoice that was
\* answered with nothing, and the registry holds no room
C22_GhostVoteIgnored ==
    /\ last.op = "makeChoice"
    /\ currentRoom[last.socket] # Null
    /\ status[last.socket] = "open"
    /\ DOMAIN rooms = {}
    /\ out = <<>>

\* some socket that was dealt a deck in room has disconnected
SomeoneLeft(room) ==
    \E p \in DOMAIN room.playerDecks : status[p] = "closed"

\* some notification of the handler that runs in this step carries a
\* result of a round: gameEnd, or the newRound of a runoff
ResultEmitted ==
    \E i \in DOMAIN out' :
       \/ out'[i].ev = "gameEnd"
       \/ out'[i].ev = "newRound" /\ last'.op = "makeChoice"

C24_CountNotified ==
    [][\A c \in DOMAIN rooms :
          ( /\ Has(rooms', c)
            /\ last'.op \in {"joinRoom", "disconnect"}
            /\ Len(rooms'[c].players) # Len(rooms[c].players) )
          =>
          \A i \in DOMAIN rooms'[c].players :
             status'[rooms'[c].players[i]] = "open" =>
                \E k \in DOMAIN out' :
                   /\ out'[k].ev = "playerJoined"
                   /\ out'[k].arg = <<Len(rooms'[c].players)>>
                   /\ rooms'[c].players[i] \in out'[k].to]_vars

\* C25: in every reachable state no socket id occurs twice in the players
\* list of a room.
C25_PlayersDistinct ==
    \A c \in DOMAIN rooms :
       \A i, j \in DOMAIN rooms[c].players :
          rooms[c].players[i] = rooms[c].players[j] => i = j

\* C26: a joinRoom, submitRestaurants, makeChoice or disconnect of a socket
\* changes no room but the one it resolves to (the room joined, or the
\* currentRoom of the socket): every other room of the registry stays as
\* it is, and no room is added.
C26_OtherRoomsUntouched ==
    [][last'.op \in {"joinRoom", "submitRestaurants", "makeChoice",
                     "disconnect"} =>
          LET s == last'.socket
              resolved == IF last'.op = "joinRoom" THEN currentRoom'[s]
                          ELSE currentRoom[s]
          IN /\ DOMAIN rooms' \subseteq DOMAIN rooms
             /\ \A c \in DOMAIN rooms :
                   c # resolved => (Has(rooms', c) /\ rooms'[c] = rooms[c])]_vars

\* a socket that is listed as a player of two rooms has disconnected: the
\* room it was bound to is gone and the other one still lists it
C26_LeftOneOfTwoRooms ==
    /\ last.op = "disconnect"
    /\ currentRoom[last.socket] # Null
    /\ ~Has(rooms, currentRoom[last.socket])
    /\ \E c \in DOMAIN rooms : last.socket \in Range(rooms[c].players)

\* the ids of the cards socket s has been shown in room: those of its deck
\* up to the one at its cursor
ShownTo(room, s) ==
    IF Has(room.playerDecks, s)
    THEN {room.playerDecks[s][k].id :
             k \in {k \in DOMAIN room.playerDecks[s] :
                      k <= room.playerCardIndices[s] + 1}}
    ELSE {}

\* the number of restaurants socket p has a choice on in the ledger of room
VotesOf(room, p) ==
    Cardinality({id \in DOMAIN room.choices : Has(room.choices[id], p)})

\* C27: of the votes a player and its timer send for a card the player was
\* shown, in whatever order they arrive, the first is recorded and moves
\* the cursor of the player by one, and every later one changes nothing; so
\* the cursor of a player is the number of cards it has a choice on.
C27_OneVotePerCard ==
    [][\A s \in Pair, ch \in Choice :
          \A id \in KnownIds(currentRoom[s]) :
             ( /\ last' = Ran("makeChoice", s)
               /\ Has(rooms, currentRoom[s])
               /\ id \in ShownTo(rooms[currentRoom[s]], s)
               /\ MakeChoice(s, id, ch) )
             =>
             LET c == currentRoom[s]
                 old == rooms[c]
                 new == rooms'[c]
             IN /\ IF ~FirstVote(old, s, id) THEN rooms' = rooms
                   ELSE IF \E i \in DOMAIN out' : out'[i].ev = "newRound"
                   THEN new.choices = EmptyMap
                   ELSE /\ new.choices = LedgerWith(old, s, id, ch)
                        /\ new.playerCardIndices =
                              [old.playerCardIndices EXCEPT ![s] = @ + 1]
                /\ \A i \in DOMAIN new.players :
                      Has(new.playerDecks, new.players[i]) =>
                         new.playerCardIndices[new.players[i]]
                            = VotesOf(new, new.players[i])]_vars

\* a player that chose YES on the first card of its deck has sent another
\* vote for that card, which was answered with nothing
C27_LateVoteDropped ==
    /\ last.op = "makeChoice"
    /\ out = <<>>
    /\ Has(rooms, currentRoom[last.socket])
    /\ LET room == rooms[currentRoom[last.socket]]
       IN /\ Has(room.playerDecks, last.socket)
          /\ room.playerCardIndices[last.socket] = 1
          /\ VotesOf(room, last.socket) = 1
          /\ Has(room.choices, room.playerDecks[last.socket][1].id)
          /\ Has(room.choices[room.playerDecks[last.socket][1].id],
                 last.socket)
          /\ room.choices[room.playerDecks[last.socket][1].id][last.socket]
                = "YES"

\* C28: gameEnd or the newRound of a runoff is emitted only by a makeChoice
\* that leaves every player of the room at the end of its own deck (before
\* a runoff deals new decks); a makeChoice that leaves some player at
\* another position, or without a deck, emits neither.
C28_ResultsOnlyWhenAllDone ==
    [][ResultEmitted =>
          /\ last'.op = "makeChoice"
          /\ Has(rooms, currentRoom[last'.socket])
          /\ CompletesRound(rooms[currentRoom[last'.socket]], last'.socket)
          /\ (\E i \in DOMAIN out' : out'[i].ev = "gameEnd") =>
                LET new == rooms'[currentRoom[last'.socket]]
                IN \A i \in DOMAIN new.players :
                      /\ Has(new.playerDecks, new.players[i])
                      /\ new.playerCardIndices[new.players[i]]
                            = Len(new.playerDecks[new.players[i]])]_vars

\* a player has rated its last card while the other one has not: it was
\* told to wait and no result was emitted
C28_WaitingForOther ==
    /\ last.op = "makeChoice"
    /\ out = <<Emit({last.socket}, "waitingForOther", <<>>)>>
    /\ \E c \in DOMAIN rooms :
          /\ Len(rooms[c].players) = 2
          /\ \A i \in DOMAIN rooms[c].players :
                Has(rooms[c].playerDecks, rooms[c].players[i])
          /\ rooms[c].playerCardIndices[last.socket]
                = Len(rooms[c].playerDecks[last.socket])
          /\ \E i \in DOMAIN rooms[c].players :
                rooms[c].playerCardIndices[rooms[c].players[i]]
                   < Len(rooms[c].playerDecks[rooms[c].players[i]])

\* a round of room 1 is being played
RoundOpen == Has(rooms, 1) /\ Started(rooms[1]) /\ ~rooms[1].ended

\* the last handler completed a round: it emitted gameEnd, or the newRound
\* of a runoff
RoundCompleted ==
    /\ last.op = "makeChoice"
    /\ Emitted("gameEnd") \/ Emitted("newRound")

\* C29: when both players stay connected and rate every card they are
\* shown, every round that has started, whatever the two lists submitted,
\* is eventually completed: gameEnd or newRound is emitted.
C29_RoundCompletes ==
    (RoundOpen /\ ~RoundCompleted) ~> RoundCompleted

\* C30: when both players stay connected and rate every card they are
\* shown, a game in which cards are dealt eventually ends: gameEnd is
\* emitted after finitely many runoff rounds.
C30_GameEnds ==
    (RoundOpen /\ rooms[1].restaurants # <<>>) ~> rooms[1].ended

\* the positions of out' that hold a showCard
ShowCards == {i \in DOMAIN out' : out'[i].ev = "showCard"}

\* the handler that ran started a round: it emitted newRound
RoundStarts == \E i \in DOMAIN out' : out'[i].ev = "newRound"

\* the handler that ran was a makeChoice of a socket that holds a deck in
\* its room, and it was accepted: it changed the room
AcceptedVote ==
    /\ last'.op = "makeChoice"
    /\ Has(rooms, currentRoom[last'.socket])
    /\ Has(rooms[currentRoom[last'.socket]].playerDecks, last'.socket)
    /\ rooms' # rooms

\* C31: a handler that starts a round sends exactly one showCard to each
\* connected player with a non-empty deck: the first card of the deck, index
\* 0 and the length of the deck.
C31_OneFirstCardEach ==
    [][RoundStarts =>
         LET room == rooms'[currentRoom[last'.socket]]
         IN \A p \in Range(room.players) :
               (status[p] = "open" /\ Len(room.playerDecks[p]) > 0) =>
                  /\ Cardinality({i \in ShowCards : p \in out'[i].to}) = 1
                  /\ \E i \in ShowCards :
                        out'[i] = Emit({p}, "showCard",
                                       <<room.playerDecks[p][1], 0,
                                         Len(room.playerDecks[p])>>)]_vars

\* C31, what holds of it: every showCard goes to one socket p and carries
\* the card of p's deck at p's cursor, the cursor and the length of the
\* deck.  A handler that starts a round sends the first card (index 0) to
\* every connected player with a non-empty deck, once for each time
\* room.players lists it, and to nobody else; an accepted makeChoice
\* of a deck holder that leaves the cursor below the length of the deck
\* sends exactly one showCard, to the caller; no other step sends one.
C31_ShowCard ==
    [][LET s == last'.socket
           c == currentRoom[s]
       IN /\ ShowCards # {} =>
                /\ Has(rooms', c)
                /\ \A i \in ShowCards :
                      \E p \in Sockets :
                         /\ out'[i].to = {p}
                         /\ Has(rooms'[c].playerDecks, p)
                         /\ LET deck == rooms'[c].playerDecks[p]
                                k == rooms'[c].playerCardIndices[p]
                            IN /\ k < Len(deck)
                               /\ out'[i].arg = <<deck[k + 1], k, Len(deck)>>
          /\ RoundStarts =>
                /\ \A p \in Range(rooms'[c].players) :
                      LET deck == rooms'[c].playerDecks[p]
                      IN (status[p] = "open" /\ Len(deck) > 0) =>
                            \E i \in ShowCards :
                               out'[i] = Emit({p}, "showCard",
                                              <<deck[1], 0, Len(deck)>>)
                /\ \A i \in ShowCards :
                      /\ out'[i].to \subseteq Range(rooms'[c].players)
                      /\ out'[i].arg[2] = 0
          /\ ~RoundStarts =>
                IF /\ AcceptedVote
                   /\ rooms'[c].playerCardIndices[s]
                         < Len(rooms'[c].playerDecks[s])
                THEN /\ Cardinality(ShowCards) = 1
                     /\ \A i \in ShowCards : out'[i].to = {s}
                ELSE ShowCards = {}]_vars

\* a player rated the first card of a deck of two and was shown the second
C31_SecondCardShown ==
    /\ last.op = "makeChoice"
    /\ Has(rooms, currentRoom[last.socket])
    /\ LET room == rooms[currentRoom[last.socket]]
       IN /\ Has(room.playerDecks, last.socket)
          /\ Len(room.playerDecks[last.socket]) = 2
          /\ room.playerCardIndices[last.socket] = 1
          /\ out = <<Emit({last.socket}, "showCard",
                          <<room.playerDecks[last.socket][2], 1, 2>>)>>

\* C32: the cursor of a socket in a room changes in two ways only.  A
\* handler that starts a round in the room sets the cursor of every player
\* to 0 and leaves the others; any other step leaves it or adds exactly 1,
\* and it adds 1 exactly when the step is an accepted makeChoice of that
\* socket in that room, whatever restaurantId the call names.
C32_CursorSteps ==
    [][last'.op # "createRoom" =>
         \A c \in (DOMAIN rooms) \cap (DOMAIN rooms') :
            \A p \in DOMAIN rooms[c].playerCardIndices :
               /\ Has(rooms'[c].playerCardIndices, p)
               /\ LET k == rooms[c].playerCardIndices[p]
                      k2 == rooms'[c].playerCardIndices[p]
                  IN IF RoundStarts /\ c = currentRoom[last'.socket]
                     THEN k2 = IF p \in Range(rooms'[c].players)
                               THEN 0 ELSE k
                     ELSE IF /\ AcceptedVote
                             /\ p = last'.socket
                             /\ c = currentRoom[p]
                     THEN k2 = k + 1
                     ELSE k2 = k]_vars

\* a player rated the second card of its deck before the first: the cursor
\* moved to 1 all the same
C32_OutOfOrderVote ==
    /\ last.op = "makeChoice"
    /\ Has(rooms, currentRoom[last.socket])
    /\ LET room == rooms[currentRoom[last.socket]]
           s == last.socket
       IN /\ Has(room.playerDecks, s)
          /\ Len(room.playerDecks[s]) = 2
          /\ room.playerCardIndices[s] = 1
          /\ FirstVote(room, s, room.playerDecks[s][1].id)
          /\ ~FirstVote(room, s, room.playerDecks[s][2].id)

\* what room holds for socket q: its deck, its cursor and its choices
HeldFor(room, q) ==
    [deck |-> IF Has(room.playerDecks, q)
              THEN <<room.playerDecks[q]>> ELSE <<>>,
     cursor |-> IF Has(room.playerCardIndices, q)
                THEN <<room.playerCardIndices[q]>> ELSE <<>>,
     choices |-> {<<id, room.choices[id][q]>> :
                    id \in {x \in DOMAIN room.choices :
                              Has(room.choices[x], q)}}]

\* C33: a makeChoice of socket s that completes no round (it emits neither
\* gameEnd nor newRound) notifies no socket but s and leaves the deck, the
\* cursor and the choices of every other socket as they were; and such a
\* makeChoice, when it is the first vote of a deck holder on a restaurant,
\* moves the caller's cursor by one wherever the cursors of the others are.
C33_OthersUntouched ==
    [][(last'.op = "makeChoice" /\ ~ResultEmitted) =>
         LET s == last'.socket
         IN /\ \A i \in DOMAIN out' : out'[i].to \subseteq {s}
            /\ \A c \in DOMAIN rooms :
                  /\ Has(rooms', c)
                  /\ \A q \in Sockets \ {s} :
                        HeldFor(rooms'[c], q) = HeldFor(rooms[c], q)
            /\ \A id \in KnownIds(currentRoom[s]), ch \in Choice :
                  ( /\ Has(rooms, currentRoom[s])
                    /\ Has(rooms[currentRoom[s]].playerDecks, s)
                    /\ FirstVote(rooms[currentRoom[s]], s, id)
                    /\ MakeChoice(s, id, ch) ) =>
                     rooms'[currentRoom[s]].playerCardIndices[s]
                        = rooms[currentRoom[s]].playerCardIndices[s] + 1]_vars

\* a player has rated its whole deck of two while the other player of the
\* room, with a deck of its own, has rated nothing
C33_FinishedBeforeOtherBegan ==
    /\ last.op = "makeChoice"
    /\ Has(rooms, currentRoom[last.socket])
    /\ LET room == rooms[currentRoom[last.socket]]
           s == last.socket
       IN /\ Has(room.playerDecks, s)
          /\ room.playerCardIndices[s] = 2
          /\ \E q \in Range(room.players) \ {s} :
                /\ Has(room.playerDecks, q)
                /\ room.playerCardIndices[q] = 0
                /\ VotesOf(room, q) = 0

\* C35: while a round is being played in a room (cards have been dealt and
\* gameEnd has not been emitted), every player of the room holds a deck and
\* a cursor.
C35_PlayersHoldDecks ==
    \A c \in DOMAIN rooms :
       (Started(rooms[c]) /\ ~rooms[c].ended) =>
          \A p \in Range(rooms[c].players) :
             /\ Has(rooms[c].playerDecks, p)
             /\ Has(rooms[c].playerCardIndices, p)

\* C36: in every room the sockets that have submitted are players of the
\* room, so the two submissions that start round 1 come from the two
\* sockets that are in the room at that moment.
C36_SubmittedArePlayers ==
    \A c \in DOMAIN rooms :
       rooms[c].submittedPlayers \subseteq Range(rooms[c].players)

\* C36, the start of round 1: a submitRestaurants starts the round only
\* when every player the room has at that moment has submitted.
C36_StartNeedsBothPlayers ==
    [][(last'.op = "submitRestaurants" /\ RoundStarts) =>
          Range(rooms'[currentRoom[last'.socket]].players)
             \subseteq rooms'[currentRoom[last'.socket]].submittedPlayers]_vars

\* the restaurants the handler that ran classified as matches: the matches
\* of gameEnd, or the list of the runoff it started
MatchedNow(room) ==
    IF \E i \in DOMAIN out' : out'[i].ev = "gameEnd"
    THEN room.matches ELSE room.restaurants

\* C37: when a makeChoice completes a round, every choice on a restaurant
\* it puts in matches was made by a socket that holds a deck in the room:
\* no choice of a connection without a deck is counted.
C37_MatchesFromDeckHolders ==
    [][(ResultEmitted /\ last'.op = "makeChoice") =>
         LET c == currentRoom[last'.socket]
             matched == MatchedNow(rooms'[c])
         IN \A i \in DOMAIN matched :
               Has(rooms[c].choices, matched[i].id) =>
                  DOMAIN rooms[c].choices[matched[i].id]
                     \subseteq DOMAIN rooms[c].playerDecks]_vars

\* C39: in every room, for every player that holds a deck, the cursor is
\* the number of restaurantIds the ledger of the round has a choice of that
\* player on (ids that are on no list count like the others).
C39_LedgerMatchesCursor ==
    \A c \in DOMAIN rooms :
       \A p \in Range(rooms[c].players) \cap DOMAIN rooms[c].playerDecks :
          /\ Has(rooms[c].playerCardIndices, p)
          /\ rooms[c].playerCardIndices[p] = VotesOf(rooms[c], p)

\* a runoff has started, which cleared the ledger and the cursors, and a
\* player has rated one card of it
C39_VotedInRunoff ==
    \E c \in DOMAIN rooms :
       /\ rooms[c].roundNumber = 2
       /\ ~rooms[c].ended
       /\ \E p \in Range(rooms[c].players) \cap DOMAIN rooms[c].playerDecks :
             /\ rooms[c].playerCardIndices[p] = 1
             /\ VotesOf(rooms[c], p) = 1
             /\ Len(rooms[c].playerDecks[p]) = 2

\* C38: a client whose gamePhase is playing or ended is never taken back to
\* input or waiting by the notifications of a handler.
C38_PhaseNeverGoesBack ==
    [][\A s \in Sockets :
          gameState[s].gamePhase \in {"playing", "ended"} =>
             gameState'[s].gamePhase \notin {"input", "waiting"}]_vars

\* the positions of out' that hold a notification ev addressed to socket p
SentTo(ev, p) == {i \in DOMAIN out' : out'[i].ev = ev /\ p \in out'[i].to}

\* C34: in the notifications of one handler, each socket is sent gameStart
\* before the newRound of round 1, newRound before the showCard of a round
\* that starts, and, when its own vote completes a round, waitingForOther
\* before newRound or gameEnd; so a handler that starts a round leaves the
\* client of every connected player in playing, not waiting, with the first
\* card of its new deck as currentCard.
C34_NotificationOrder ==
    [][\A p \in Sockets :
          /\ last'.op = "submitRestaurants" =>
                \A j \in SentTo("newRound", p) :
                   \E i \in SentTo("gameStart", p) : i < j
          /\ RoundStarts =>
                \A k \in SentTo("showCard", p) :
                   \E j \in SentTo("newRound", p) : j < k
          /\ (last'.op = "makeChoice" /\ p = last'.socket) =>
                \A j \in SentTo("newRound", p) \cup SentTo("gameEnd", p) :
                   \E i \in SentTo("waitingForOther", p) : i < j
          /\ ( /\ RoundStarts
               /\ status[p] = "open"
               /\ p \in Range(rooms'[currentRoom[last'.socket]].players) ) =>
                LET deck == rooms'[currentRoom[last'.socket]].playerDecks[p]
                IN gameState'[p] =
                      [gamePhase |-> "playing",
                       isWaiting |-> FALSE,
                       currentCard |-> IF deck = <<>> THEN <<>>
                                       ELSE <<deck[1]>>]]_vars

\* the vote of a player completed round 1 and started a runoff: it was
\* sent waitingForOther, newRound and showCard, and its client shows the
\* first card of the new deck
C34_RunoffCardShown ==
    /\ last.op = "makeChoice"
    /\ Len(out) >= 3
    /\ out[1] = Emit({last.socket}, "waitingForOther", <<>>)
    /\ out[2].ev = "newRound"
    /\ Has(rooms, currentRoom[last.socket])
    /\ LET room == rooms[currentRoom[last.socket]]
       IN /\ room.roundNumber = 2
          /\ Has(room.playerDecks, last.socket)
          /\ gameState[last.socket] =
                [gamePhase |-> "playing", isWaiting |-> FALSE,
                 currentCard |-> <<room.playerDecks[last.socket][1]>>]
====
